---- MODULE Spec2Model ----
(***************************************************************************)
(* The per-category fee ledger of the attendance tracker (FeesManager,     *)
(* src/unnamed/part_006): the Firestore collection `fees`, its             *)
(* sub-collection `transactions`, and browser clients that each hold a     *)
(* cached fee list, an Edit Fees dialog and an Add Payment dialog.         *)
(*                                                                         *)
(* A write travels in steps: the client issues the request, the store      *)
(* applies or rejects it, and the client's continuation (.then / the code  *)
(* after await) runs later.  Other clients act in between.  Each client    *)
(* has at most one request outstanding and its dialogs are modal; the      *)
(* section "one fee session" drops both for a single session.              *)
(* Amounts are whole rupees.  The attendance pages of the same             *)
(* application (dashboard, reports, working-days calendar) follow.         *)
(***************************************************************************)
EXTENDS Integers, FiniteSets, Sequences, Bags, TLC

\* ---------------------------------------------------------------- bounds
\* Writes that reach one fee document in one behaviour (Edit Fees saves and
\* Add Payment commits together); it caps updatedAt and the transaction log.
MaxWrites == 3

\* ------------------------------------------------------------- constants
\* part_006:27
feeCategories == <<"tuition", "exam", "transport", "hostel", "registration">>
Categories == {feeCategories[i] : i \in 1..Len(feeCategories)}
\* The categories whose total the modelled users type into the form; the
\* other categories stay {0, 0, 0} and still take part in every sum.
EditedCategories == {"tuition", "exam"}
\* The totals they type, per category, and the amounts they type into the
\* Add Payment form.
TypedTotals == [c \in EditedCategories |-> IF c = "tuition" THEN {0, 2} ELSE {0, 1}]
TypedAmounts == {1, 2}
\* What can be typed into the amount field of a payment dialog
\* (<Input type="number">, part_006:582, part_007:540).
AmountInputs == {-1, 0} \cup TypedAmounts
Students == {"s1"}
Clients == {"a", "b"}

\* ------------------------------------------------------------ data shapes
\* part_006:102  const defaultFeeItem = { total: 0, paid: 0, balance: 0 }
defaultFeeItem == [total |-> 0, paid |-> 0, balance |-> 0]

\* Sum of f[c] over the categories, in feeCategories order (Array.reduce).
RECURSIVE SumUpTo(_, _)
SumUpTo(f, n) == IF n = 0 THEN 0 ELSE SumUpTo(f, n - 1) + f[feeCategories[n]]
SumCategories(f) == SumUpTo(f, Len(feeCategories))

\* part_006:97-121  the profile shown for a student: the cached entry, or a
\* default profile of zeros when the cache has none.
DefaultProfile ==
    [items |-> [c \in Categories |-> defaultFeeItem],
     totalAmount |-> 0, totalPaid |-> 0, totalBalance |-> 0, updatedAt |-> 0]
getStudentFeeProfile(cache, studentId) ==
    IF studentId \in DOMAIN cache THEN cache[studentId] ELSE DefaultProfile

VARIABLES
    feeDocs,          \* store: collection `fees`, feeId -> document
    transactions,     \* store: fees/{feeId}/transactions, a bag of rows
    fees,             \* client: useState<Fee[]> (the cached fee list)
    dialog,           \* client: "none" | "fee" | "payment"
    formData,         \* client: FeeFormDialog's formData
    paymentFeeTarget, \* client: the fee handed to PaymentDialog
    request           \* client: the outstanding store request

feeVars == <<feeDocs, transactions, fees, dialog, formData, paymentFeeTarget, request>>

\* The attendance side of the store and of the clients (part_004, part_009,
\* working-days/page.tsx).
VARIABLES
    today,            \* the calendar date that new Date() falls on
    workingDayDocs,   \* store: workingDays/{dateKey}.isWorkingDay
    recordDocs,       \* store: attendanceRecords/{id}
    submissionDocs,   \* store: attendanceSubmissions/{classId_date}
    issued,           \* record ids handed out by doc(collection(...))
    staff,            \* client: role of the logged-in staff
    records,          \* client: DashboardPage.records
    submissions,      \* client: DashboardPage.submissions
    workingDays,      \* client: DashboardPage.workingDays
    calendarDays,     \* client: WorkingDaysPage.workingDays (a Map)
    isTodayWorkingDay,    \* client: EntryForm's memo
    isAlreadySubmitted,   \* client: EntryForm's state
    batch,            \* client: the writeBatch on its way to the store
    page              \* client: the page the session has mounted

attendanceVars ==
    <<today, workingDayDocs, recordDocs, submissionDocs, issued, staff, records,
      submissions, workingDays, calendarDays, isTodayWorkingDay,
      isAlreadySubmitted, batch, page>>

\* One browser session of the fee manager with its cached fee list as the
\* array it is, the objects of the categories as the objects they are, and
\* every setDoc that is on its way (part_006:34-49, 147-200, 500-523).
VARIABLES
    feeList,          \* session: useState<Fee[]>, entries in list order
    heap,             \* session: the category objects { total, paid, balance }
    saves,            \* session: the setDoc calls whose promise is pending
    feeForm           \* session: FeeFormDialog (mounted while open)

sessionVars == <<feeList, heap, saves, feeForm>>
vars == <<feeVars, attendanceVars, sessionVars>>

\* A map without entries (no document, an empty list).
NoEntries == [d \in {} |-> FALSE]
NoBatch == [kind |-> "none", date |-> 0, absent |-> {}, presentCount |-> 0,
            absentCount |-> 0, ids |-> NoEntries, recordId |-> 0]
\* Nobody is logged in to the attendance pages and nothing is stored.
NoAttendance ==
    /\ today = 1
    /\ workingDayDocs = NoEntries
    /\ recordDocs = NoEntries
    /\ submissionDocs = NoEntries
    /\ issued = 0
    /\ staff = [k \in Clients |-> "none"]
    /\ records = [k \in Clients |-> NoEntries]
    /\ submissions = [k \in Clients |-> NoEntries]
    /\ workingDays = [k \in Clients |-> NoEntries]
    /\ calendarDays = [k \in Clients |-> NoEntries]
    /\ isTodayWorkingDay = [k \in Clients |-> FALSE]
    /\ isAlreadySubmitted = [k \in Clients |-> FALSE]
    /\ batch = [k \in Clients |-> NoBatch]
    /\ page = [k \in Clients |-> "none"]

\* A collection (or cached list) without entries.
NoDocs == [s \in {} |-> DefaultProfile]
\* f with the entry of id set to v (added when f has none).
Put(f, id, v) == [t \in DOMAIN f \cup {id} |-> IF t = id THEN v ELSE f[t]]

NoTarget == [studentId |-> "", fee |-> DefaultProfile]
NoRequest ==
    [kind |-> "none", feeId |-> "", feeType |-> "", amount |-> 0,
     data |-> DefaultProfile, isEditing |-> FALSE, phase |-> "idle",
     snap |-> DefaultProfile]

\* No session of the list form is open.
NoForm == [open |-> FALSE, studentId |-> "", items |-> [c \in Categories |-> [ref |-> 0, val |-> defaultFeeItem]]]
NoSession ==
    /\ feeList = << >>
    /\ heap = << >>
    /\ saves = EmptyBag
    /\ feeForm = NoForm

Init ==
    /\ feeDocs = NoDocs
    /\ transactions = [s \in Students |-> EmptyBag]
    /\ fees = [k \in Clients |-> NoDocs]
    /\ dialog = [k \in Clients |-> "none"]
    /\ formData = [k \in Clients |-> NoTarget]
    /\ paymentFeeTarget = [k \in Clients |-> NoTarget]
    /\ request = [k \in Clients |-> NoRequest]
    /\ NoAttendance
    /\ NoSession

Idle(k) == dialog[k] = "none" /\ request[k].kind = "none"

\* updatedAt is the store's write time of a document (serverTimestamp(),
\* part_006:169, 221), counted in writes.  A client never reads the updatedAt
\* of a cached entry; the cache keeps 0 there.
Cached(doc) == [doc EXCEPT !.updatedAt = 0]
WriteTime(feeId) == IF feeId \in DOMAIN feeDocs THEN feeDocs[feeId].updatedAt ELSE 0
\* Writes that have reached the document or are on their way to it.
WritesIssued(feeId) ==
    WriteTime(feeId)
      + Cardinality({k \in Clients : request[k].kind # "none" /\ request[k].feeId = feeId})

\* part_006:53-95  fetchData on mount: the cache becomes the stored fee
\* documents of the listed students.
fetchData(k) ==
    /\ Idle(k)
    /\ fees[k] # [s \in DOMAIN feeDocs |-> Cached(feeDocs[s])]
    /\ fees' = [fees EXCEPT ![k] = [s \in DOMAIN feeDocs |-> Cached(feeDocs[s])]]
    /\ UNCHANGED <<feeDocs, transactions, dialog, formData, paymentFeeTarget, request>>
    /\ UNCHANGED attendanceVars
    /\ UNCHANGED sessionVars

\* ------------------------------------------------------------- Edit Fees
\* part_006:263-267 (and FeeFormDialog's useState(fee), :501)
openFeeDialog(k, s) ==
    /\ Idle(k)
    /\ formData' = [formData EXCEPT
                      ![k] = [studentId |-> s, fee |-> getStudentFeeProfile(fees[k], s)]]
    /\ dialog' = [dialog EXCEPT ![k] = "fee"]
    /\ UNCHANGED <<feeDocs, transactions, fees, paymentFeeTarget, request>>
    /\ UNCHANGED attendanceVars
    /\ UNCHANGED sessionVars

\* part_006:503-512  handleCategoryChange:
\*   { ...prev, [category]: { ...existingCategoryData, total: amount } }
CategoryChange(fee, category, amount) ==
    [fee EXCEPT !.items[category].total = amount]
\* The form after the user has typed typed[c] into the field of every
\* category c in DOMAIN typed, one handleCategoryChange per field, in
\* feeCategories order.
RECURSIVE TypeTotals(_, _, _)
TypeTotals(fee, typed, n) ==
    IF n = 0 THEN fee
    ELSE LET prev == TypeTotals(fee, typed, n - 1)
             c == feeCategories[n]
         IN  IF c \in DOMAIN typed THEN CategoryChange(prev, c, typed[c]) ELSE prev
\* What a user may type: a new total into any of the fields of
\* EditedCategories (a field left alone keeps the total the dialog opened with).
FormInputs(fee) ==
    {typed \in UNION {[S -> UNION {TypedTotals[c] : c \in S}] : S \in SUBSET EditedCategories} :
        \A c \in DOMAIN typed : typed[c] \in TypedTotals[c] /\ typed[c] # fee.items[c].total}

\* part_006:156-179  dataToSave: the form's categories with balance
\* recomputed, and the three aggregates recomputed from the categories.
\* Variant that adds to the stored balance instead of recomputing it.
CategoryBalance_Accumulated(item) == item.balance + item.total - item.paid
CategoryBalance(item) == item.total - item.paid
\* Variant without the recomputation of part_006:173-175.
ReconcileItems_Skipped(items) == items
ReconcileItems(items) ==
    [c \in Categories |-> [items[c] EXCEPT !.balance = CategoryBalance(items[c])]]
\* Variant that counts the first category only.
TotalAmountOf_FirstOnly(items) == items[feeCategories[1]].total
TotalAmountOf(items) == SumCategories([c \in Categories |-> items[c].total])
TotalPaidOf(items) == SumCategories([c \in Categories |-> items[c].paid])
dataToSave(feeData) ==
    [items |-> ReconcileItems(feeData.items),
     totalAmount |-> TotalAmountOf(feeData.items),
     totalPaid |-> TotalPaidOf(feeData.items),
     totalBalance |-> TotalAmountOf(feeData.items) - TotalPaidOf(feeData.items),
     updatedAt |-> 0]

\* part_006:501, 516, 160-164, 173-175  the form was opened on the cached
\* entry itself and { ...formData } is a shallow copy, so the category
\* objects that handleCategoryChange did not replace are the cache's own:
\* dataToSave[cat].balance = total - paid is written into them in place.
BalancesInPlace_FormShared(cache, feeId, form, typed) ==
    [f \in DOMAIN cache |->
        IF f = feeId
        THEN [cache[f] EXCEPT
                !.items = [c \in Categories |->
                             [form.items[c] EXCEPT !.balance = CategoryBalance(form.items[c])]]]
        ELSE cache[f]]
BalancesInPlace(cache, feeId, form, typed) ==
    [f \in DOMAIN cache |->
        IF f = feeId
        THEN [cache[f] EXCEPT
                !.items = [c \in Categories |->
                             IF c \in DOMAIN typed
                             THEN cache[f].items[c]
                             ELSE [cache[f].items[c] EXCEPT
                                     !.balance = CategoryBalance(cache[f].items[c])]]]
        ELSE cache[f]]

\* part_006:503-523 and 147-181  the user types the totals, handleSubmit ->
\* handleSaveFee: setDoc is issued with dataToSave
handleSaveFee(k, typed) ==
    /\ dialog[k] = "fee"
    /\ request[k].kind = "none"
    /\ WritesIssued(formData[k].studentId) < MaxWrites
    /\ formData' = [formData EXCEPT
                      ![k].fee = TypeTotals(@, typed, Len(feeCategories))]
    /\ request' = [request EXCEPT
                     ![k] = [NoRequest EXCEPT
                               !.kind = "setDoc",
                               !.feeId = formData[k].studentId,
                               !.data = dataToSave(formData'[k].fee),
                               !.isEditing = formData[k].studentId \in DOMAIN fees[k],
                               !.phase = "sent"]]
    /\ fees' = [fees EXCEPT
                  ![k] = BalancesInPlace(@, formData[k].studentId, formData'[k].fee, typed)]
    /\ UNCHANGED <<feeDocs, transactions, dialog, paymentFeeTarget>>
    /\ UNCHANGED attendanceVars
    /\ UNCHANGED sessionVars

\* The fields of the document feeId; a document that does not exist has none
\* and reads as zeros.
getDoc(docs, feeId) == IF feeId \in DOMAIN docs THEN docs[feeId] ELSE DefaultProfile

\* part_006:181  setDoc(docRef, dataToSave, { merge: true }): every leaf field
\* that dataToSave names replaces the stored one, the others are kept.
\* dataToSave names all three fields of all five categories and the three
\* aggregates.
MergeDoc(old, data) ==
    [old EXCEPT !.items = [c \in Categories |->
                             [old.items[c] EXCEPT !.total = data.items[c].total,
                                                  !.paid = data.items[c].paid,
                                                  !.balance = data.items[c].balance]],
                !.totalAmount = data.totalAmount,
                !.totalPaid = data.totalPaid,
                !.totalBalance = data.totalBalance,
                !.updatedAt = @ + 1]

\* part_006:185-194  finalData replaces the cached entry (isEditing) or is
\* appended to the list.
CacheAfterSave(cache, feeId, finalData, isEditing) ==
    IF isEditing
    THEN [f \in DOMAIN cache |-> IF f = feeId THEN finalData ELSE cache[f]]
    ELSE Put(cache, feeId, finalData)

\* part_006:181-196  the store applies the write and the .then callback runs:
\* the cache takes finalData and the dialog closes.
setDocResolved(k) ==
    LET r == request[k]
    IN  /\ r.kind = "setDoc"
        /\ feeDocs' = Put(feeDocs, r.feeId, MergeDoc(getDoc(feeDocs, r.feeId), r.data))
        /\ fees' = [fees EXCEPT ![k] = CacheAfterSave(fees[k], r.feeId, r.data, r.isEditing)]
        /\ dialog' = [dialog EXCEPT ![k] = "none"]
        /\ formData' = [formData EXCEPT ![k] = NoTarget]
        /\ request' = [request EXCEPT ![k] = NoRequest]
        /\ UNCHANGED <<transactions, paymentFeeTarget>>
        /\ UNCHANGED attendanceVars
        /\ UNCHANGED sessionVars

\* part_006:197-199  the store rejects the write (permission denied, network
\* failure) and .catch runs: the error is emitted, nothing else changes.
setDocRejected(k) ==
    /\ request[k].kind = "setDoc"
    /\ request' = [request EXCEPT ![k] = NoRequest]
    /\ UNCHANGED <<feeDocs, transactions, fees, dialog, formData, paymentFeeTarget>>
    /\ UNCHANGED attendanceVars
    /\ UNCHANGED sessionVars

\* DialogClose / onOpenChange(false) of either dialog (part_006:526, 539, 560, 585)
closeDialog(k) ==
    /\ dialog[k] # "none"
    /\ request[k].kind = "none"
    /\ dialog' = [dialog EXCEPT ![k] = "none"]
    /\ formData' = [formData EXCEPT ![k] = NoTarget]
    /\ paymentFeeTarget' = [paymentFeeTarget EXCEPT ![k] = NoTarget]
    /\ UNCHANGED <<feeDocs, transactions, fees, request>>
    /\ UNCHANGED attendanceVars
    /\ UNCHANGED sessionVars

\* ----------------------------------------------------------- Add Payment
\* part_006:478  the Add Payment button is disabled when the shown profile's
\* totalBalance is <= 0.
AddPaymentEnabled(feeProfile) == feeProfile.totalBalance > 0

\* part_006:269-272
openPaymentDialog(k, s) ==
    /\ Idle(k)
    /\ AddPaymentEnabled(getStudentFeeProfile(fees[k], s))
    /\ paymentFeeTarget' = [paymentFeeTarget EXCEPT
                              ![k] = [studentId |-> s,
                                      fee |-> getStudentFeeProfile(fees[k], s)]]
    /\ dialog' = [dialog EXCEPT ![k] = "payment"]
    /\ UNCHANGED <<feeDocs, transactions, fees, formData, request>>
    /\ UNCHANGED attendanceVars
    /\ UNCHANGED sessionVars

\* Variant with the field's max alone, without the button's lower limit.
RecordPaymentEnabled_MaxOnly(fee, feeType, amount) ==
    amount <= fee.items[feeType].balance
\* part_006:557, 586  Record Payment is disabled unless 0 < amount <= maxAmount,
\* maxAmount being the selected category's balance in the dialog's fee.
RecordPaymentEnabled(fee, feeType, amount) ==
    /\ amount > 0
    /\ amount <= fee.items[feeType].balance

\* part_006:202-208  handleAddPayment up to runTransaction: the transaction
\* on fees/{feeProfile.id} is started.
StartPayment(k, feeId, feeType, paymentAmount) ==
    /\ WritesIssued(feeId) < MaxWrites
    /\ request' = [request EXCEPT
                     ![k] = [NoRequest EXCEPT
                               !.kind = "tx", !.feeId = feeId, !.feeType = feeType,
                               !.amount = paymentAmount, !.phase = "begin"]]

\* part_006:552-555, 586  PaymentDialog.handleSubmit -> handleAddPayment
handleAddPayment(k, feeType, amount) ==
    /\ dialog[k] = "payment"
    /\ request[k].kind = "none"
    /\ RecordPaymentEnabled(paymentFeeTarget[k].fee, feeType, amount)
    /\ StartPayment(k, paymentFeeTarget[k].studentId, feeType, amount)
    /\ UNCHANGED <<feeDocs, transactions, fees, dialog, formData, paymentFeeTarget>>
    /\ UNCHANGED attendanceVars
    /\ UNCHANGED sessionVars

\* Variant without the existence test of part_006:210.
exists_Unchecked(docs, feeId) == TRUE
\* part_006:210  feeDoc.exists()
exists(docs, feeId) == feeId \in DOMAIN docs

\* part_006:209-212  transaction.get(feeRef); the document exists and
\* currentFeeData is its data
transactionGet(k) ==
    /\ request[k].kind = "tx"
    /\ request[k].phase = "begin"
    /\ exists(feeDocs, request[k].feeId)
    /\ request' = [request EXCEPT ![k].phase = "read",
                                  ![k].snap = getDoc(feeDocs, request[k].feeId)]
    /\ UNCHANGED <<feeDocs, transactions, fees, dialog, formData, paymentFeeTarget>>
    /\ UNCHANGED attendanceVars
    /\ UNCHANGED sessionVars

\* part_006:210, 251-260  transaction.get(feeRef) finds no document: the body
\* throws, runTransaction rejects and the catch block emits the error.
transactionThrows(k) ==
    /\ request[k].kind = "tx"
    /\ request[k].phase = "begin"
    /\ ~exists(feeDocs, request[k].feeId)
    /\ request' = [request EXCEPT ![k] = NoRequest]
    /\ UNCHANGED <<feeDocs, transactions, fees, dialog, formData, paymentFeeTarget>>
    /\ UNCHANGED attendanceVars
    /\ UNCHANGED sessionVars

\* Variant that stores the payment as the category's paid instead of adding
\* it to the paid that was read.
newPaidForCategory_Replaced(currentFeeData, feeType, paymentAmount) ==
    paymentAmount
\* part_006:214-222  the fields transaction.update writes, computed from the
\* document the transaction read.
newPaidForCategory(currentFeeData, feeType, paymentAmount) ==
    currentFeeData.items[feeType].paid + paymentAmount
\* Variant that leaves the category's balance as it was read.
transactionData_BalanceKept(currentFeeData, feeType, paymentAmount) ==
    [paid |-> newPaidForCategory(currentFeeData, feeType, paymentAmount),
     balance |-> currentFeeData.items[feeType].balance,
     totalPaid |-> currentFeeData.totalPaid + paymentAmount,
     totalBalance |-> currentFeeData.totalBalance - paymentAmount]
transactionData(currentFeeData, feeType, paymentAmount) ==
    [paid |-> newPaidForCategory(currentFeeData, feeType, paymentAmount),
     balance |-> currentFeeData.items[feeType].total
                   - newPaidForCategory(currentFeeData, feeType, paymentAmount),
     totalPaid |-> currentFeeData.totalPaid + paymentAmount,
     totalBalance |-> currentFeeData.totalBalance - paymentAmount]
\* Variant that replaces the document by the written fields (a set without
\* merge) instead of updating them.
UpdateDoc_Replaced(doc, feeType, td) ==
    [DefaultProfile EXCEPT !.items[feeType].paid = td.paid,
                           !.items[feeType].balance = td.balance,
                           !.totalPaid = td.totalPaid,
                           !.totalBalance = td.totalBalance,
                           !.updatedAt = doc.updatedAt + 1]
\* part_006:224  transaction.update(feeRef, transactionData): the four named
\* fields of the stored document are replaced.
UpdateDoc(doc, feeType, td) ==
    [doc EXCEPT !.items[feeType].paid = td.paid,
                !.items[feeType].balance = td.balance,
                !.totalPaid = td.totalPaid,
                !.totalBalance = td.totalBalance,
                !.updatedAt = @ + 1]
\* part_006:226-233  the row to log
newTransactionData(feeId, feeType, paymentAmount) ==
    [feeId |-> feeId, feeType |-> feeType, amount |-> paymentAmount]
\* Variant in which the new row takes the place of the stored ones.
SetTransaction_Overwritten(rows, row) == SetToBag({row})
\* Variant in which the row is not stored.
SetTransaction_Dropped(rows, row) == rows
\* part_006:205, 234  transaction.set(transactionRef, newTransactionData) on a
\* fresh document of the sub-collection
SetTransaction(rows, row) == rows (+) SetToBag({row})

\* part_006:237-247  the cached entry after a recorded payment
CacheAfterPayment(cache, feeId, feeType, paymentAmount) ==
    [f \in DOMAIN cache |->
        IF f = feeId
        THEN [cache[f] EXCEPT
                !.items[feeType].paid = @ + paymentAmount,
                !.items[feeType].balance = @ - paymentAmount,
                !.totalPaid = @ + paymentAmount,
                !.totalBalance = @ - paymentAmount]
        ELSE cache[f]]

\* Variant without the optimistic-concurrency test: the writes computed from
\* a stale read are committed.
CanCommit_Blind(r) == TRUE
\* part_006:208  runTransaction commits only if the document it read has
\* not been written since the read.
CanCommit(r) == WriteTime(r.feeId) = r.snap.updatedAt

\* part_006:208-250  the transaction commits (both writes at once), await
\* returns: the cache is updated and the dialog closes.
transactionCommitted(k) ==
    LET r == request[k]
    IN  /\ r.kind = "tx"
        /\ r.phase = "read"
        /\ CanCommit(r)
        /\ feeDocs' = Put(feeDocs, r.feeId,
                          UpdateDoc(getDoc(feeDocs, r.feeId), r.feeType,
                                    transactionData(r.snap, r.feeType, r.amount)))
        /\ transactions' = [transactions EXCEPT
                              ![r.feeId] = SetTransaction(@, newTransactionData(r.feeId, r.feeType, r.amount))]
        /\ fees' = [fees EXCEPT
                      ![k] = CacheAfterPayment(fees[k], r.feeId, r.feeType, r.amount)]
        /\ dialog' = [dialog EXCEPT ![k] = "none"]
        /\ paymentFeeTarget' = [paymentFeeTarget EXCEPT ![k] = NoTarget]
        /\ request' = [request EXCEPT ![k] = NoRequest]
        /\ UNCHANGED formData
        /\ UNCHANGED attendanceVars
        /\ UNCHANGED sessionVars

\* Firestore: the commit fails because the document was written since the
\* read; the transaction body (part_006:208-235) is run again.
transactionRetried(k) ==
    /\ request[k].kind = "tx"
    /\ request[k].phase = "read"
    /\ ~CanCommit(request[k])
    /\ request' = [request EXCEPT ![k].phase = "begin", ![k].snap = DefaultProfile]
    /\ UNCHANGED <<feeDocs, transactions, fees, dialog, formData, paymentFeeTarget>>
    /\ UNCHANGED attendanceVars
    /\ UNCHANGED sessionVars

\* part_006:251-260  runTransaction rejects: the store refused the read or
\* the commit (permission denied, network failure), or the retries are used
\* up.  The catch block emits the error; nothing else changes.
transactionRejected(k) ==
    /\ request[k].kind = "tx"
    /\ request' = [request EXCEPT ![k] = NoRequest]
    /\ UNCHANGED <<feeDocs, transactions, fees, dialog, formData, paymentFeeTarget>>
    /\ UNCHANGED attendanceVars
    /\ UNCHANGED sessionVars

\* part_006:202-208  handleAddPayment called with the profile shown for any
\* listed student, any category and amount (no dialog in front of it).
callAddPayment(k, s, feeType, amount) ==
    /\ Idle(k)
    /\ StartPayment(k, s, feeType, amount)
    /\ UNCHANGED <<feeDocs, transactions, fees, dialog, formData, paymentFeeTarget>>
    /\ UNCHANGED attendanceVars
    /\ UNCHANGED sessionVars

Next ==
    \E k \in Clients :
        \/ fetchData(k)
        \/ \E s \in Students : openFeeDialog(k, s)
        \/ \E typed \in FormInputs(formData[k].fee) : handleSaveFee(k, typed)
        \/ setDocResolved(k)
        \/ setDocRejected(k)
        \/ closeDialog(k)
        \/ \E s \in Students : openPaymentDialog(k, s)
        \/ \E c \in Categories, x \in AmountInputs : handleAddPayment(k, c, x)
        \/ transactionGet(k)
        \/ transactionCommitted(k)
        \/ transactionRetried(k)
        \/ transactionRejected(k)

\* The fee manager as its users drive it.  (No payment is ever started on a
\* student without a fee document: the Add Payment button needs a cached
\* entry with totalBalance > 0, and documents are never deleted.)
Spec == Init /\ [][Next]_vars

\* The handlers driven directly: Edit Fees as in Spec, and handleAddPayment
\* on any shown profile, the default profile of a student without a fee
\* document included.
NextDirect ==
    \E k \in Clients :
        \/ fetchData(k)
        \/ \E s \in Students : openFeeDialog(k, s)
        \/ \E typed \in FormInputs(formData[k].fee) : handleSaveFee(k, typed)
        \/ setDocResolved(k)
        \/ setDocRejected(k)
        \/ closeDialog(k)
        \/ \E s \in Students, c \in EditedCategories, x \in TypedAmounts :
              callAddPayment(k, s, c, x)
        \/ transactionGet(k)
        \/ transactionThrows(k)
        \/ transactionCommitted(k)
        \/ transactionRetried(k)
        \/ transactionRejected(k)
SpecDirect == Init /\ [][NextDirect]_vars

\* Two clients that have both loaded the same freshly created profile and
\* only record payments: no Edit Fees save, no reload.
InitPayments ==
    /\ \E typed \in FormInputs(DefaultProfile) :
          feeDocs = [s \in Students |->
                       MergeDoc(DefaultProfile,
                                dataToSave(TypeTotals(DefaultProfile, typed,
                                                      Len(feeCategories))))]
    /\ transactions = [s \in Students |-> EmptyBag]
    /\ fees = [k \in Clients |-> [s \in DOMAIN feeDocs |-> Cached(feeDocs[s])]]
    /\ dialog = [k \in Clients |-> "none"]
    /\ formData = [k \in Clients |-> NoTarget]
    /\ paymentFeeTarget = [k \in Clients |-> NoTarget]
    /\ request = [k \in Clients |-> NoRequest]
    /\ NoAttendance
    /\ NoSession
NextPayments ==
    \E k \in Clients :
        \/ \E s \in Students : openPaymentDialog(k, s)
        \/ \E c \in Categories, x \in AmountInputs : handleAddPayment(k, c, x)
        \/ transactionGet(k)
        \/ transactionCommitted(k)
        \/ transactionRetried(k)
        \/ transactionRejected(k)
        \/ closeDialog(k)
SpecPayments == InitPayments /\ [][NextPayments]_vars

\* ------------------------------------------------------------- dashboard
\* The students a dashboard lists (part_006:34, 123-128), when it lists
\* several.
ListedStudents == {"s1", "s2", "s3"}

\* part_006:127-129  studentFeeProfiles: the shown profile of every listed
\* student.
studentFeeProfiles(cache, listed) ==
    [s \in listed |-> getStudentFeeProfile(cache, s)]
\* part_006:131-132  profiles.reduce((sum, fee) => sum + fee[field], 0)
RECURSIVE ReduceSum(_, _, _)
ReduceSum(profiles, S, field) ==
    IF S = {} THEN 0
    ELSE LET s == CHOOSE x \in S : TRUE
         IN  profiles[s][field] + ReduceSum(profiles, S \ {s}, field)
\* Variant that counts as fully paid every profile without a balance.
feesSummary_NoAmountTest(profiles) ==
    [totalAmount |-> ReduceSum(profiles, DOMAIN profiles, "totalAmount"),
     totalPaid |-> ReduceSum(profiles, DOMAIN profiles, "totalPaid"),
     totalBalance |-> ReduceSum(profiles, DOMAIN profiles, "totalAmount")
                        - ReduceSum(profiles, DOMAIN profiles, "totalPaid"),
     paidCount |-> Cardinality({s \in DOMAIN profiles : profiles[s].totalBalance <= 0}),
     partialCount |-> Cardinality({s \in DOMAIN profiles :
                          profiles[s].totalBalance > 0 /\ profiles[s].totalPaid > 0}),
     unpaidCount |-> Cardinality({s \in DOMAIN profiles :
                          profiles[s].totalBalance > 0 /\ profiles[s].totalPaid = 0})]
\* Variant that counts as partly paid every profile with a balance.
feesSummary_PartialByBalance(profiles) ==
    [totalAmount |-> ReduceSum(profiles, DOMAIN profiles, "totalAmount"),
     totalPaid |-> ReduceSum(profiles, DOMAIN profiles, "totalPaid"),
     totalBalance |-> ReduceSum(profiles, DOMAIN profiles, "totalAmount")
                        - ReduceSum(profiles, DOMAIN profiles, "totalPaid"),
     paidCount |-> Cardinality({s \in DOMAIN profiles :
                       profiles[s].totalBalance <= 0 /\ profiles[s].totalAmount > 0}),
     partialCount |-> Cardinality({s \in DOMAIN profiles : profiles[s].totalBalance > 0}),
     unpaidCount |-> Cardinality({s \in DOMAIN profiles :
                          profiles[s].totalBalance > 0 /\ profiles[s].totalPaid = 0})]
\* part_006:130-144  feesSummary
feesSummary(profiles) ==
    [totalAmount |-> ReduceSum(profiles, DOMAIN profiles, "totalAmount"),
     totalPaid |-> ReduceSum(profiles, DOMAIN profiles, "totalPaid"),
     totalBalance |-> ReduceSum(profiles, DOMAIN profiles, "totalAmount")
                        - ReduceSum(profiles, DOMAIN profiles, "totalPaid"),
     paidCount |-> Cardinality({s \in DOMAIN profiles :
                       profiles[s].totalBalance <= 0 /\ profiles[s].totalAmount > 0}),
     partialCount |-> Cardinality({s \in DOMAIN profiles :
                          profiles[s].totalBalance > 0 /\ profiles[s].totalPaid > 0}),
     unpaidCount |-> Cardinality({s \in DOMAIN profiles :
                          profiles[s].totalBalance > 0 /\ profiles[s].totalPaid = 0})]

\* The dashboard of a school whose listed students have the fee documents
\* that Edit Fees created for them (some have none yet): the clients load
\* them and one of them records payments.
InitSummary ==
    /\ \E withDoc \in SUBSET ListedStudents :
         \E typed \in [withDoc -> FormInputs(DefaultProfile)] :
            feeDocs = [s \in withDoc |->
                         MergeDoc(DefaultProfile,
                                  dataToSave(TypeTotals(DefaultProfile, typed[s],
                                                        Len(feeCategories))))]
    /\ transactions = [s \in ListedStudents |-> EmptyBag]
    /\ fees = [k \in Clients |-> NoDocs]
    /\ dialog = [k \in Clients |-> "none"]
    /\ formData = [k \in Clients |-> NoTarget]
    /\ paymentFeeTarget = [k \in Clients |-> NoTarget]
    /\ request = [k \in Clients |-> NoRequest]
    /\ NoAttendance
    /\ NoSession
\* The client on whose dashboard the payments are recorded.
Cashier == CHOOSE k \in Clients : TRUE
NextSummary ==
    \E k \in {Cashier} :
        \/ fetchData(k)
        \/ \E s \in ListedStudents : openPaymentDialog(k, s)
        \/ \E c \in EditedCategories, amount \in AmountInputs : handleAddPayment(k, c, amount)
        \/ transactionGet(k)
        \/ transactionCommitted(k)
        \/ transactionRejected(k)
        \/ closeDialog(k)
SpecSummary == InitSummary /\ [][NextSummary]_vars

\* ------------------------------------------- single-amount fee manager
\* part_007: a fee record is one amount { totalAmount, paidAmount, balance,
\* status }; its payments are rows { feeId, amount } of the same
\* fees/{feeId}/transactions sub-collection.
FeeRecords == {"f1", "f2"}
\* part_007:159  status of a fee record
statusOf(balance, paidAmount) ==
    IF balance <= 0 THEN "Paid" ELSE IF paidAmount > 0 THEN "Partial" ELSE "Unpaid"
\* part_007:138-159  dataToSave of a new fee record (not isEditing)
newFeeRecord(totalAmount) ==
    [totalAmount |-> totalAmount, paidAmount |-> 0, balance |-> totalAmount,
     status |-> statusOf(totalAmount, 0), updatedAt |-> 1]

\* part_007:465  Add Payment is disabled for a record without balance
openPaymentDialogSimple(k, f) ==
    /\ Idle(k)
    /\ f \in DOMAIN fees[k]
    /\ ~(fees[k][f].balance <= 0)
    /\ paymentFeeTarget' = [paymentFeeTarget EXCEPT
                              ![k] = [studentId |-> f, fee |-> fees[k][f]]]
    /\ dialog' = [dialog EXCEPT ![k] = "payment"]
    /\ UNCHANGED <<feeDocs, transactions, fees, formData, request>>
    /\ UNCHANGED attendanceVars
    /\ UNCHANGED sessionVars

\* part_007:529-532, 540  PaymentDialog: the browser submits the form when
\* the amount field is filled and not above max={fee.balance}; handleSubmit
\* calls onSave when amount is truthy.
SubmitsPaymentSimple(fee, amount) ==
    /\ amount <= fee.balance
    /\ amount # 0
\* part_007:183-188  handleAddPayment up to runTransaction
handleAddPaymentSimple(k, amount) ==
    /\ dialog[k] = "payment"
    /\ request[k].kind = "none"
    /\ SubmitsPaymentSimple(paymentFeeTarget[k].fee, amount)
    /\ StartPayment(k, paymentFeeTarget[k].studentId, "", amount)
    /\ UNCHANGED <<feeDocs, transactions, fees, dialog, formData, paymentFeeTarget>>
    /\ UNCHANGED attendanceVars
    /\ UNCHANGED sessionVars

\* part_007:192-203  the fields transaction.update writes
paymentUpdateSimple(feeData, paymentAmount) ==
    [feeData EXCEPT
       !.paidAmount = @ + paymentAmount,
       !.balance = feeData.totalAmount - (feeData.paidAmount + paymentAmount),
       !.status = IF feeData.totalAmount - (feeData.paidAmount + paymentAmount) <= 0
                  THEN "Paid" ELSE "Partial"]
\* part_007:205-211  the row to log
newTransactionSimple(feeId, paymentAmount) == [feeId |-> feeId, amount |-> paymentAmount]
\* part_007:188-231  the transaction commits, the cache entry is updated and
\* the dialog closes.
transactionCommittedSimple(k) ==
    LET r == request[k]
    IN  /\ r.kind = "tx"
        /\ r.phase = "read"
        /\ CanCommit(r)
        /\ feeDocs' = [feeDocs EXCEPT
                         ![r.feeId] = [paymentUpdateSimple(r.snap, r.amount) EXCEPT
                                         !.updatedAt = feeDocs[r.feeId].updatedAt + 1]]
        /\ transactions' = [transactions EXCEPT
                              ![r.feeId] = SetTransaction(@, newTransactionSimple(r.feeId, r.amount))]
        /\ fees' = [fees EXCEPT
                      ![k] = [f \in DOMAIN fees[k] |->
                                IF f = r.feeId
                                THEN paymentUpdateSimple(fees[k][f], r.amount)
                                ELSE fees[k][f]]]
        /\ dialog' = [dialog EXCEPT ![k] = "none"]
        /\ paymentFeeTarget' = [paymentFeeTarget EXCEPT ![k] = NoTarget]
        /\ request' = [request EXCEPT ![k] = NoRequest]
        /\ UNCHANGED formData
        /\ UNCHANGED attendanceVars
        /\ UNCHANGED sessionVars

\* part_007:237-247  handleDeleteFee, confirmed by the user, and its .then:
\* deleteDoc removes the document fees/{feeId} and nothing else; the
\* record leaves the cached list.
handleDeleteFee(k, feeId) ==
    /\ Idle(k)
    /\ feeId \in DOMAIN fees[k]
    /\ feeDocs' = [f \in DOMAIN feeDocs \ {feeId} |-> feeDocs[f]]
    /\ fees' = [fees EXCEPT ![k] = [f \in DOMAIN fees[k] \ {feeId} |-> fees[k][f]]]
    /\ UNCHANGED <<transactions, dialog, formData, paymentFeeTarget, request>>
    /\ UNCHANGED attendanceVars
    /\ UNCHANGED sessionVars

\* Fee records exist with their amounts and both clients have loaded them
\* (part_007:47-82).
InitSimple ==
    /\ feeDocs \in [FeeRecords -> {newFeeRecord(x) : x \in TypedAmounts}]
    /\ transactions = [f \in FeeRecords |-> EmptyBag]
    /\ fees = [k \in Clients |-> [f \in FeeRecords |-> Cached(feeDocs[f])]]
    /\ dialog = [k \in Clients |-> "none"]
    /\ formData = [k \in Clients |-> NoTarget]
    /\ paymentFeeTarget = [k \in Clients |-> NoTarget]
    /\ request = [k \in Clients |-> NoRequest]
    /\ NoAttendance
    /\ NoSession
NextSimple ==
    \E k \in Clients :
        \/ \E f \in FeeRecords : openPaymentDialogSimple(k, f)
        \/ \E amount \in AmountInputs : handleAddPaymentSimple(k, amount)
        \/ transactionGet(k)
        \/ transactionCommittedSimple(k)
        \/ transactionRetried(k)
        \/ transactionRejected(k)
        \/ closeDialog(k)
        \/ \E f \in FeeRecords : handleDeleteFee(k, f)
SpecSimple == InitSimple /\ [][NextSimple]_vars

\* ------------------------------------------------------------ attendance
\* Calendar dates are counted in days; day 0 is a Sunday.  The behaviours
\* end on MaxDay.
MaxDay == 7
\* Attendance submissions issued in one behaviour, per teacher session.
MaxSubmits == 1
\* The dates of the behaviours, from a Friday on.
Days == 5..MaxDay
FirstDay == CHOOSE d \in Days : \A e \in Days : d <= e
\* date-fns isSunday (part_004:12, 77)
isSunday(date) == date % 7 = 0
\* The students of the teacher's class (part_004:123).
studentsInClass == {"u1", "u2"}

\* Map.get(dateKey) ?? false, and find(d => d.id === key)?.isWorkingDay || false
IsWorking(days, date) == IF date \in DOMAIN days THEN days[date] ELSE FALSE

\* part_004:69-79  the records kept from a fetch: not dated on a Sunday and
\* on a date that the fetched calendar marks as working.
filteredRecords_OptOut(recs, workDays) ==
    [id \in {i \in DOMAIN recs :
                /\ ~isSunday(recs[i].date)
                /\ (recs[i].date \in DOMAIN workDays => workDays[recs[i].date])}
       |-> recs[id]]
filteredRecords(recs, workDays) ==
    [id \in {i \in DOMAIN recs :
                /\ ~isSunday(recs[i].date)
                /\ IsWorking(workDays, recs[i].date)}
       |-> recs[id]]

\* part_004:224  the dashboard renders the EntryForm for a teacher and the
\* record views for everybody else.
RendersEntryForm(k) == staff[k] = "teacher"
\* layout.tsx:55-56  the navigation links the working-days page for admins.
LinksWorkingDays(k) == staff[k] = "admin"

\* part_004:29-104  the dashboard page mounts (navigation or reload):
\* fetchInitialData.  The EntryForm's memo (part_009:164-168) and submission
\* check (part_009:189-218) are computed from the fetched lists and the date
\* of that moment.  The state of the page left behind is gone.
fetchInitialData(k) ==
    /\ staff[k] # "none"
    /\ batch[k].kind = "none"
    /\ page' = [page EXCEPT ![k] = "dashboard"]
    /\ calendarDays' = [calendarDays EXCEPT ![k] = NoEntries]
    /\ workingDays' = [workingDays EXCEPT ![k] = workingDayDocs]
    /\ records' = [records EXCEPT ![k] = filteredRecords(recordDocs, workingDayDocs)]
    /\ submissions' = [submissions EXCEPT ![k] = submissionDocs]
    /\ isTodayWorkingDay' = [isTodayWorkingDay EXCEPT
                               ![k] = RendersEntryForm(k) /\ IsWorking(workingDayDocs, today)]
    /\ isAlreadySubmitted' = [isAlreadySubmitted EXCEPT
                                ![k] = RendersEntryForm(k) /\ today \in DOMAIN submissionDocs]
    /\ UNCHANGED <<today, workingDayDocs, recordDocs, submissionDocs, issued, staff, batch>>
    /\ UNCHANGED feeVars
    /\ UNCHANGED sessionVars

\* part_000:31-113 and part_008:29-88  the analytics page or the student
\* report mounts: its fetchInitialData, with the filter of the dashboard.
\* The state of the page left behind is gone.
fetchReportData(k) ==
    /\ staff[k] # "none"
    /\ batch[k].kind = "none"
    /\ page' = [page EXCEPT ![k] = "report"]
    /\ calendarDays' = [calendarDays EXCEPT ![k] = NoEntries]
    /\ workingDays' = [workingDays EXCEPT ![k] = workingDayDocs]
    /\ records' = [records EXCEPT ![k] = filteredRecords(recordDocs, workingDayDocs)]
    /\ submissions' = [submissions EXCEPT ![k] = NoEntries]
    /\ isTodayWorkingDay' = [isTodayWorkingDay EXCEPT ![k] = FALSE]
    /\ isAlreadySubmitted' = [isAlreadySubmitted EXCEPT ![k] = FALSE]
    /\ UNCHANGED <<today, workingDayDocs, recordDocs, submissionDocs, issued, staff, batch>>
    /\ UNCHANGED feeVars
    /\ UNCHANGED sessionVars

\* working-days/page.tsx:21-51  the working-days page mounts:
\* fetchWorkingDays.  The state of the page left behind is gone.
fetchWorkingDays(k) ==
    /\ LinksWorkingDays(k)
    /\ batch[k].kind = "none"
    /\ page' = [page EXCEPT ![k] = "working-days"]
    /\ calendarDays' = [calendarDays EXCEPT ![k] = workingDayDocs]
    /\ workingDays' = [workingDays EXCEPT ![k] = NoEntries]
    /\ records' = [records EXCEPT ![k] = NoEntries]
    /\ submissions' = [submissions EXCEPT ![k] = NoEntries]
    /\ isTodayWorkingDay' = [isTodayWorkingDay EXCEPT ![k] = FALSE]
    /\ isAlreadySubmitted' = [isAlreadySubmitted EXCEPT ![k] = FALSE]
    /\ UNCHANGED <<today, workingDayDocs, recordDocs, submissionDocs, issued, staff, batch>>
    /\ UNCHANGED feeVars
    /\ UNCHANGED sessionVars

\* working-days/page.tsx:53-82, 139  handleDayClick: Sundays are disabled;
\* the date's status as the page shows it is inverted, stored and shown.
\* Variant in which a click marks the date as a working day whatever it was.
newIsWorking_AlwaysWorking(calendar, day) == TRUE
\* working-days/page.tsx:58-59  isCurrentlyWorking = workingDays.get(dateKey)
\* ?? false; newIsWorking = !isCurrentlyWorking
newIsWorking(calendar, day) == ~IsWorking(calendar, day)
handleDayClick(k, day) ==
    /\ page[k] = "working-days"
    /\ ~isSunday(day)
    /\ workingDayDocs' = Put(workingDayDocs, day, newIsWorking(calendarDays[k], day))
    /\ calendarDays' = [calendarDays EXCEPT
                          ![k] = Put(@, day, newIsWorking(calendarDays[k], day))]
    /\ UNCHANGED <<today, recordDocs, submissionDocs, issued, staff, records,
                   submissions, workingDays, isTodayWorkingDay, isAlreadySubmitted,
                   batch, page>>
    /\ UNCHANGED feeVars
    /\ UNCHANGED sessionVars

\* part_004:133-138  recordsWithTimestamp: the records of the students of S,
\* each under a document id of its own, counted from firstId.
RECURSIVE recordsWithTimestamp(_, _, _)
recordsWithTimestamp(S, date, firstId) ==
    IF S = {} THEN NoEntries
    ELSE LET u == CHOOSE x \in S : TRUE
         IN  Put(recordsWithTimestamp(S \ {u}, date, firstId + 1), firstId,
                 [studentId |-> u, date |-> date])
\* part_009:272, 297-308  absentStudents and newRecords: one record for
\* each student of the list whose status is Absent.
newRecords_Everyone(absent, date, firstId) ==
    recordsWithTimestamp(studentsInClass, date, firstId)
newRecords(absent, date, firstId) ==
    recordsWithTimestamp(absent, date, firstId)

\* The submissions that the teacher sessions issue in one behaviour.
SubmitCap == MaxSubmits * Cardinality({k \in Clients : RendersEntryForm(k)})

\* part_009:255-310 and part_004:128-144  EntryForm.onSubmit with the
\* students of absent marked Absent, up to batch.commit(): the guards, the
\* submission data and the new records, dated today.
onSubmit(k, absent) ==
    /\ page[k] = "dashboard"
    /\ RendersEntryForm(k)
    /\ batch[k].kind = "none"
    /\ isTodayWorkingDay[k]
    /\ ~isAlreadySubmitted[k]
    /\ issued < SubmitCap * Cardinality(studentsInClass)
    /\ batch' = [batch EXCEPT
                   ![k] = [kind |-> "batch", date |-> today, absent |-> absent,
                           presentCount |-> Cardinality(studentsInClass) - Cardinality(absent),
                           absentCount |-> Cardinality(absent),
                           ids |-> newRecords(absent, today, issued + 1),
                           recordId |-> 0]]
    /\ issued' = issued + Cardinality(studentsInClass)
    /\ UNCHANGED <<today, workingDayDocs, recordDocs, submissionDocs, staff, records,
                   submissions, workingDays, calendarDays, isTodayWorkingDay,
                   isAlreadySubmitted, page>>
    /\ UNCHANGED feeVars
    /\ UNCHANGED sessionVars

\* f with the entries of g added (g's entry where both have one).
Merge(f, g) == [x \in DOMAIN f \cup DOMAIN g |-> IF x \in DOMAIN g THEN g[x] ELSE f[x]]

\* part_004:145-150  batch.commit() resolves: the records and the submission
\* document classId_date are stored, the local lists take them, and the
\* EntryForm's submission check runs on the new list.
batchCommitted(k) ==
    LET b == batch[k]
        newSubmission == [presentCount |-> b.presentCount, absentCount |-> b.absentCount]
    IN  /\ b.kind = "batch"
        /\ recordDocs' = Merge(recordDocs, b.ids)
        /\ submissionDocs' = Put(submissionDocs, b.date, newSubmission)
        /\ records' = [records EXCEPT ![k] = Merge(@, b.ids)]
        /\ submissions' = [submissions EXCEPT ![k] = Put(@, b.date, newSubmission)]
        /\ isAlreadySubmitted' = [isAlreadySubmitted EXCEPT
                                    ![k] = today \in DOMAIN submissions'[k]]
        /\ batch' = [batch EXCEPT ![k] = NoBatch]
        /\ UNCHANGED <<today, workingDayDocs, issued, staff, workingDays, calendarDays,
                       isTodayWorkingDay, page>>
        /\ UNCHANGED feeVars
        /\ UNCHANGED sessionVars

\* part_004:151-159  batch.commit() rejects: the error is shown, nothing is
\* stored and the local lists stay.
batchRejected(k) ==
    /\ batch[k].kind = "batch"
    /\ batch' = [batch EXCEPT ![k] = NoBatch]
    /\ UNCHANGED <<today, workingDayDocs, recordDocs, submissionDocs, issued, staff,
                   records, submissions, workingDays, calendarDays, isTodayWorkingDay,
                   isAlreadySubmitted, page>>
    /\ UNCHANGED feeVars
    /\ UNCHANGED sessionVars

\* layout.tsx:310-336  the absentees list offers Mark as Arrived on a shown
\* record to an admin (and to the teacher of the student's class, who is not
\* shown the list on the dashboard).
canEdit(k) == staff[k] = "admin"

\* part_004:162-176  handleUpdateRecord up to the commit of its transaction,
\* for a record of the session's list.
handleUpdateRecord(k, recordId) ==
    /\ page[k] = "dashboard"
    /\ ~RendersEntryForm(k)
    /\ canEdit(k)
    /\ batch[k].kind = "none"
    /\ recordId \in DOMAIN records[k]
    /\ batch' = [batch EXCEPT
                   ![k] = [NoBatch EXCEPT !.kind = "update",
                                          !.date = records[k][recordId].date,
                                          !.recordId = recordId]]
    /\ UNCHANGED <<today, workingDayDocs, recordDocs, submissionDocs, issued, staff,
                   records, submissions, workingDays, calendarDays, isTodayWorkingDay,
                   isAlreadySubmitted, page>>
    /\ UNCHANGED feeVars
    /\ UNCHANGED sessionVars

\* transaction.delete(recordRef): the document is gone, whether or not it
\* was there.
DeleteDoc(docs, id) == [i \in DOMAIN docs \ {id} |-> docs[i]]
\* part_004:172-175, 180-185  absentCount: increment(-1), presentCount:
\* increment(1) on the submission of the date (the local list: the entry
\* with that id, if it has one).
markPresent(docs, date) ==
    IF date \in DOMAIN docs
    THEN [docs EXCEPT ![date].absentCount = @ - 1, ![date].presentCount = @ + 1]
    ELSE docs

\* part_004:164-187  the transaction commits (it reads nothing; update needs
\* the submission document to exist): the record is deleted and the counts
\* are moved, in the store and in the session's lists.
updateCommitted(k) ==
    LET b == batch[k]
    IN  /\ b.kind = "update"
        /\ b.date \in DOMAIN submissionDocs
        /\ recordDocs' = DeleteDoc(recordDocs, b.recordId)
        /\ submissionDocs' = markPresent(submissionDocs, b.date)
        /\ records' = [records EXCEPT ![k] = DeleteDoc(@, b.recordId)]
        /\ submissions' = [submissions EXCEPT
                             ![k] = markPresent(@, b.date)]
        /\ batch' = [batch EXCEPT ![k] = NoBatch]
        /\ UNCHANGED <<today, workingDayDocs, issued, staff, workingDays, calendarDays,
                       isTodayWorkingDay, isAlreadySubmitted, page>>
        /\ UNCHANGED feeVars
        /\ UNCHANGED sessionVars

\* part_004:188-191  the transaction is rejected: the error is shown and
\* nothing changes.
updateRejected(k) ==
    /\ batch[k].kind = "update"
    /\ batch' = [batch EXCEPT ![k] = NoBatch]
    /\ UNCHANGED <<today, workingDayDocs, recordDocs, submissionDocs, issued, staff,
                   records, submissions, workingDays, calendarDays, isTodayWorkingDay,
                   isAlreadySubmitted, page>>
    /\ UNCHANGED feeVars
    /\ UNCHANGED sessionVars

\* Midnight passes.
NextDay ==
    /\ today < MaxDay
    /\ today' = today + 1
    /\ UNCHANGED <<workingDayDocs, recordDocs, submissionDocs, issued, staff, records,
                   submissions, workingDays, calendarDays, isTodayWorkingDay,
                   isAlreadySubmitted, batch, page>>
    /\ UNCHANGED feeVars
    /\ UNCHANGED sessionVars

\* A class teacher and an admin are logged in on FirstDay, before anything
\* is stored and before either has a page open.
Teacher == CHOOSE k \in Clients : TRUE
InitAttendance ==
    /\ today = FirstDay
    /\ workingDayDocs = NoEntries
    /\ recordDocs = NoEntries
    /\ submissionDocs = NoEntries
    /\ issued = 0
    /\ staff = [k \in Clients |-> IF k = Teacher THEN "teacher" ELSE "admin"]
    /\ records = [k \in Clients |-> NoEntries]
    /\ submissions = [k \in Clients |-> NoEntries]
    /\ workingDays = [k \in Clients |-> NoEntries]
    /\ calendarDays = [k \in Clients |-> NoEntries]
    /\ isTodayWorkingDay = [k \in Clients |-> FALSE]
    /\ isAlreadySubmitted = [k \in Clients |-> FALSE]
    /\ batch = [k \in Clients |-> NoBatch]
    /\ page = [k \in Clients |-> "none"]
    /\ feeDocs = NoDocs
    /\ transactions = [s \in Students |-> EmptyBag]
    /\ fees = [k \in Clients |-> NoDocs]
    /\ dialog = [k \in Clients |-> "none"]
    /\ formData = [k \in Clients |-> NoTarget]
    /\ paymentFeeTarget = [k \in Clients |-> NoTarget]
    /\ request = [k \in Clients |-> NoRequest]
    /\ NoSession
NextAttendance ==
    \/ NextDay
    \/ \E k \in Clients :
        \/ fetchInitialData(k)
        \/ fetchReportData(k)
        \/ fetchWorkingDays(k)
        \/ \E day \in Days : handleDayClick(k, day)
        \/ \E absent \in SUBSET studentsInClass : onSubmit(k, absent)
        \/ batchCommitted(k)
        \/ batchRejected(k)
SpecAttendance == InitAttendance /\ [][NextAttendance]_vars

\* lib/types Staff['role'] (layout.tsx:50)
Roles == {"admin", "teacher", "viewer", "dean"}
\* layout.tsx:22-26 and working-days/page.tsx:15-51  the dashboard layout
\* sends a visitor without a staff record to /login and nobody else anywhere;
\* WorkingDaysPage reads no staff and tests no role.  The address
\* /dashboard/working-days therefore mounts the page for every logged-in
\* staff member, linked or not.
MountsWorkingDays(k) == staff[k] \in Roles
fetchWorkingDaysByAddress(k) ==
    /\ MountsWorkingDays(k)
    /\ batch[k].kind = "none"
    /\ page' = [page EXCEPT ![k] = "working-days"]
    /\ calendarDays' = [calendarDays EXCEPT ![k] = workingDayDocs]
    /\ workingDays' = [workingDays EXCEPT ![k] = NoEntries]
    /\ records' = [records EXCEPT ![k] = NoEntries]
    /\ submissions' = [submissions EXCEPT ![k] = NoEntries]
    /\ isTodayWorkingDay' = [isTodayWorkingDay EXCEPT ![k] = FALSE]
    /\ isAlreadySubmitted' = [isAlreadySubmitted EXCEPT ![k] = FALSE]
    /\ UNCHANGED <<today, workingDayDocs, recordDocs, submissionDocs, issued, staff, batch>>
    /\ UNCHANGED feeVars
    /\ UNCHANGED sessionVars

\* Two staff members of any roles are logged in on FirstDay, before
\* anything is stored and before either has a page open.
InitCalendar ==
    /\ today = FirstDay
    /\ workingDayDocs = NoEntries
    /\ recordDocs = NoEntries
    /\ submissionDocs = NoEntries
    /\ issued = 0
    /\ staff \in [Clients -> Roles]
    /\ records = [k \in Clients |-> NoEntries]
    /\ submissions = [k \in Clients |-> NoEntries]
    /\ workingDays = [k \in Clients |-> NoEntries]
    /\ calendarDays = [k \in Clients |-> NoEntries]
    /\ isTodayWorkingDay = [k \in Clients |-> FALSE]
    /\ isAlreadySubmitted = [k \in Clients |-> FALSE]
    /\ batch = [k \in Clients |-> NoBatch]
    /\ page = [k \in Clients |-> "none"]
    /\ feeDocs = NoDocs
    /\ transactions = [s \in Students |-> EmptyBag]
    /\ fees = [k \in Clients |-> NoDocs]
    /\ dialog = [k \in Clients |-> "none"]
    /\ formData = [k \in Clients |-> NoTarget]
    /\ paymentFeeTarget = [k \in Clients |-> NoTarget]
    /\ request = [k \in Clients |-> NoRequest]
    /\ NoSession
NextCalendar ==
    \E k \in Clients :
        \/ fetchInitialData(k)
        \/ fetchWorkingDays(k)
        \/ fetchWorkingDaysByAddress(k)
        \/ \E day \in Days : handleDayClick(k, day)
SpecCalendar == InitCalendar /\ [][NextCalendar]_vars

\* Two sessions of the class teacher (two devices, or two teachers of the
\* class), on a FirstDay that the admin has marked as a working day; nothing
\* else is stored and neither has the dashboard open yet.
InitSubmissions ==
    /\ today = FirstDay
    /\ workingDayDocs = Put(NoEntries, FirstDay, TRUE)
    /\ recordDocs = NoEntries
    /\ submissionDocs = NoEntries
    /\ issued = 0
    /\ staff = [k \in Clients |-> "teacher"]
    /\ records = [k \in Clients |-> NoEntries]
    /\ submissions = [k \in Clients |-> NoEntries]
    /\ workingDays = [k \in Clients |-> NoEntries]
    /\ calendarDays = [k \in Clients |-> NoEntries]
    /\ isTodayWorkingDay = [k \in Clients |-> FALSE]
    /\ isAlreadySubmitted = [k \in Clients |-> FALSE]
    /\ batch = [k \in Clients |-> NoBatch]
    /\ page = [k \in Clients |-> "none"]
    /\ feeDocs = NoDocs
    /\ transactions = [s \in Students |-> EmptyBag]
    /\ fees = [k \in Clients |-> NoDocs]
    /\ dialog = [k \in Clients |-> "none"]
    /\ formData = [k \in Clients |-> NoTarget]
    /\ paymentFeeTarget = [k \in Clients |-> NoTarget]
    /\ request = [k \in Clients |-> NoRequest]
    /\ NoSession
NextSubmissions ==
    \/ NextDay
    \/ \E k \in Clients :
        \/ fetchInitialData(k)
        \/ \E absent \in SUBSET studentsInClass : onSubmit(k, absent)
        \/ batchCommitted(k)
        \/ batchRejected(k)
SpecSubmissions == InitSubmissions /\ [][NextSubmissions]_vars

\* Two admins and one submission of the class, stored on a working FirstDay
\* with some of the students absent; neither admin has the dashboard open
\* yet.  They mark absentees as arrived.
InitArrivals ==
    /\ today = FirstDay
    /\ workingDayDocs = Put(NoEntries, FirstDay, TRUE)
    /\ \E absent \in SUBSET studentsInClass \ {{}} :
          /\ recordDocs = newRecords(absent, FirstDay, 1)
          /\ submissionDocs
               = Put(NoEntries, FirstDay,
                     [presentCount |-> Cardinality(studentsInClass) - Cardinality(absent),
                      absentCount |-> Cardinality(absent)])
    /\ issued = Cardinality(studentsInClass)
    /\ staff = [k \in Clients |-> "admin"]
    /\ records = [k \in Clients |-> NoEntries]
    /\ submissions = [k \in Clients |-> NoEntries]
    /\ workingDays = [k \in Clients |-> NoEntries]
    /\ calendarDays = [k \in Clients |-> NoEntries]
    /\ isTodayWorkingDay = [k \in Clients |-> FALSE]
    /\ isAlreadySubmitted = [k \in Clients |-> FALSE]
    /\ batch = [k \in Clients |-> NoBatch]
    /\ page = [k \in Clients |-> "none"]
    /\ feeDocs = NoDocs
    /\ transactions = [s \in Students |-> EmptyBag]
    /\ fees = [k \in Clients |-> NoDocs]
    /\ dialog = [k \in Clients |-> "none"]
    /\ formData = [k \in Clients |-> NoTarget]
    /\ paymentFeeTarget = [k \in Clients |-> NoTarget]
    /\ request = [k \in Clients |-> NoRequest]
    /\ NoSession
NextArrivals ==
    \E k \in Clients :
        \/ fetchInitialData(k)
        \/ \E recordId \in DOMAIN records[k] : handleUpdateRecord(k, recordId)
        \/ updateCommitted(k)
        \/ updateRejected(k)
SpecArrivals == InitArrivals /\ [][NextArrivals]_vars

\* ------------------------------------------------------- one fee session
\* One browser session of FeesManager and no other writer, with what the
\* sections above abstract from: the cached list is an array (fees.find takes
\* the first entry of a student, [...prev, finalData] appends), the category
\* objects { total, paid, balance } are shared by reference between the cached
\* entry, the form and finalData (shallow copies, part_006:160-164, 185, 516,
\* 239), and Save Fees can be clicked again while a save is pending: the
\* submit button (part_006:540) has no disabled state and the dialog closes
\* in .then only (part_006:195).
\* Save Fees clicks whose setDoc is pending at one time.
MaxPending == 2
\* A category held by reference ref is heap[ref]; ref 0 is an object that
\* only the form holds so far (val is its value).
ItemOf(h, it) == IF it.ref = 0 THEN it.val ELSE h[it.ref]
\* part_006:98  fees.find(f => f.studentId === studentId): the position of
\* the first entry of the student, 0 when there is none.
FindEntry(list, studentId) ==
    IF \E i \in 1..Len(list) : list[i].id = studentId
    THEN CHOOSE i \in 1..Len(list) :
            list[i].id = studentId /\ \A j \in 1..(i - 1) : list[j].id # studentId
    ELSE 0
\* The fee profile that the entry e shows.
EntryProfile(h, e) ==
    [items |-> [c \in Categories |-> h[e.items[c]]],
     totalAmount |-> e.totalAmount,
     totalPaid |-> e.totalPaid,
     totalBalance |-> e.totalBalance,
     updatedAt |-> 0]
\* Setups and payments that have reached the document or are on their way.
SessionWrites(feeId) ==
    WriteTime(feeId)
      + BagCardinality(BagOfAll(LAMBDA r : r.feeId, saves))

\* The heap holds the objects that something still refers to, numbered in the
\* order they were made: the session after a step, with the unreferenced
\* objects dropped.
LiveRefs(list, svs, form) ==
    ({list[i].items[c] : i \in 1..Len(list), c \in Categories}
       \cup {r.items[c] : r \in BagToSet(svs), c \in Categories}
       \cup {form.items[c].ref : c \in Categories}) \ {0}
Rank(R, ref) == Cardinality({x \in R : x <= ref})
SessionBecomes(list, h, svs, form) ==
    LET R == LiveRefs(list, svs, form)
        Renamed(items) == [c \in Categories |-> Rank(R, items[c])]
    IN  /\ heap' = [n \in 1..Cardinality(R) |-> h[CHOOSE r \in R : Rank(R, r) = n]]
        /\ feeList' = [i \in 1..Len(list) |-> [list[i] EXCEPT !.items = Renamed(@)]]
        /\ saves' = BagOfAll(LAMBDA r : [r EXCEPT !.items = Renamed(@)], svs)
        /\ feeForm' = [form EXCEPT
                         !.items = [c \in Categories |-> [@[c] EXCEPT !.ref = Rank(R, @)]]]

\* part_006:263-267, 97-121, 493, 501  Edit Fees: the dialog is mounted with
\* the student's first cached entry (its own category objects), or with a
\* default profile of fresh objects.
openFeeDialogSession(s) ==
    LET i == FindEntry(feeList, s)
    IN  /\ ~feeForm.open
        /\ SessionBecomes(feeList, heap, saves,
                          [open |-> TRUE, studentId |-> s,
                           items |-> [c \in Categories |->
                                        IF i = 0
                                        THEN [ref |-> 0, val |-> defaultFeeItem]
                                        ELSE [ref |-> feeList[i].items[c],
                                              val |-> defaultFeeItem]]])
        /\ UNCHANGED feeVars
        /\ UNCHANGED attendanceVars

\* part_006:503-523, 147-181  the user types the totals of DOMAIN typed
\* (each typed category becomes a new object), clicks Save Fees, and
\* handleSubmit -> handleSaveFee runs: the balances are written into the
\* form's objects, the aggregates are computed, isEditing is taken from the
\* list as it is now, and setDoc is issued.  The dialog stays open.
handleSubmitSession(typed) ==
    LET s == feeForm.studentId
        typedItems == [c \in Categories |->
                         IF c \in DOMAIN typed
                         THEN [ref |-> 0,
                               val |-> [ItemOf(heap, feeForm.items[c]) EXCEPT !.total = typed[c]]]
                         ELSE feeForm.items[c]]
        fresh == {c \in Categories : typedItems[c].ref = 0}
        RefOf(n) == IF typedItems[feeCategories[n]].ref = 0
                    THEN Len(heap) + Cardinality({j \in 1..n : feeCategories[j] \in fresh})
                    ELSE typedItems[feeCategories[n]].ref
        refs == [c \in Categories |->
                   RefOf(CHOOSE n \in 1..Len(feeCategories) : feeCategories[n] = c)]
        formValues == [c \in Categories |-> ItemOf(heap, typedItems[c])]
        reconciled == ReconcileItems(formValues)
    IN  /\ feeForm.open
        /\ BagCardinality(saves) < MaxPending
        /\ SessionWrites(s) < MaxWrites
        /\ SessionBecomes(
              feeList,
              [r \in 1..(Len(heap) + Cardinality(fresh)) |->
                  IF \E c \in Categories : refs[c] = r
                  THEN reconciled[CHOOSE c \in Categories : refs[c] = r]
                  ELSE heap[r]],
              saves (+) SetToBag({[feeId |-> s,
                                   items |-> refs,
                                   data |-> dataToSave([items |-> formValues]),
                                   isEditing |-> FindEntry(feeList, s) # 0]}),
              [feeForm EXCEPT
                 !.items = [c \in Categories |-> [ref |-> refs[c], val |-> defaultFeeItem]]])
        /\ UNCHANGED feeVars
        /\ UNCHANGED attendanceVars

\* part_006:185-194  finalData = { ...dataToSave, id }: the aggregates as
\* computed at the click, the category objects of dataToSave themselves.
finalData(r) ==
    [id |-> r.feeId, items |-> r.items,
     totalAmount |-> r.data.totalAmount,
     totalPaid |-> r.data.totalPaid,
     totalBalance |-> r.data.totalBalance]
\* part_006:190-193  setFees(prev => isEditing ? prev.map(...) : [...prev, finalData])
ListAfterSave(list, r) ==
    IF r.isEditing
    THEN [i \in 1..Len(list) |-> IF list[i].id = r.feeId THEN finalData(r) ELSE list[i]]
    ELSE Append(list, finalData(r))

\* part_006:181-196  the store applies one of the pending setDoc calls and
\* its .then runs: the list takes finalData and the dialog closes.
setDocResolvedSession(r) ==
    /\ r \in BagToSet(saves)
    /\ feeDocs' = Put(feeDocs, r.feeId, MergeDoc(getDoc(feeDocs, r.feeId), r.data))
    /\ SessionBecomes(ListAfterSave(feeList, r), heap, saves (-) SetToBag({r}), NoForm)
    /\ UNCHANGED <<transactions, fees, dialog, formData, paymentFeeTarget, request>>
    /\ UNCHANGED attendanceVars

\* part_006:197-199  the store rejects one of the pending setDoc calls.
setDocRejectedSession(r) ==
    /\ r \in BagToSet(saves)
    /\ SessionBecomes(feeList, heap, saves (-) SetToBag({r}), feeForm)
    /\ UNCHANGED feeVars
    /\ UNCHANGED attendanceVars

\* part_006:526, 539  Cancel / onOpenChange(false)
closeFeeDialogSession ==
    /\ feeForm.open
    /\ SessionBecomes(feeList, heap, saves, NoForm)
    /\ UNCHANGED feeVars
    /\ UNCHANGED attendanceVars

\* part_006:237-247  setFees(prev => prev.map(f => ...)): every entry of the
\* student, in list order, adds the amount to the category object it holds
\* (updatedFee = { ...f } copies the entry, not its categories).
RECURSIVE HeapAfterPayment(_, _, _, _, _, _)
HeapAfterPayment(h, list, n, feeId, feeType, paymentAmount) ==
    IF n = 0 THEN h
    ELSE LET prev == HeapAfterPayment(h, list, n - 1, feeId, feeType, paymentAmount)
         IN  IF list[n].id = feeId
             THEN [prev EXCEPT ![list[n].items[feeType]].paid = @ + paymentAmount,
                               ![list[n].items[feeType]].balance = @ - paymentAmount]
             ELSE prev
ListAfterPayment(list, feeId, paymentAmount) ==
    [i \in 1..Len(list) |->
        IF list[i].id = feeId
        THEN [list[i] EXCEPT !.totalPaid = @ + paymentAmount,
                             !.totalBalance = @ - paymentAmount]
        ELSE list[i]]

\* part_006:473-479, 548-592, 202-250  Add Payment of the session, start to
\* end: the dialog opens on the student's first entry, the form lets the
\* amount through, the transaction reads and (no other writer) commits, and
\* the code after await updates the list.
handleAddPaymentSession(s, feeType, amount) ==
    LET i == FindEntry(feeList, s)
        feeProfile == EntryProfile(heap, feeList[i])
    IN  /\ ~feeForm.open
        /\ i # 0
        /\ AddPaymentEnabled(feeProfile)
        /\ RecordPaymentEnabled(feeProfile, feeType, amount)
        /\ s \in DOMAIN feeDocs
        /\ SessionWrites(s) < MaxWrites
        /\ feeDocs' = Put(feeDocs, s,
                          UpdateDoc(feeDocs[s], feeType,
                                    transactionData(feeDocs[s], feeType, amount)))
        /\ transactions' = [transactions EXCEPT
                              ![s] = SetTransaction(@, newTransactionData(s, feeType, amount))]
        /\ SessionBecomes(ListAfterPayment(feeList, s, amount),
                          HeapAfterPayment(heap, feeList, Len(feeList), s, feeType, amount),
                          saves, feeForm)
        /\ UNCHANGED <<fees, dialog, formData, paymentFeeTarget, request>>
        /\ UNCHANGED attendanceVars

\* The values that the form shows.
FormProfile == [items |-> [c \in Categories |-> ItemOf(heap, feeForm.items[c])]]

\* What the session's user types: a new total into the first field of the
\* form, or nothing (the totals the dialog shows are saved as they are).
SessionInputs == {typed \in FormInputs(FormProfile) : DOMAIN typed \subseteq {feeCategories[1]}}
NextSession ==
    \/ \E s \in Students : openFeeDialogSession(s)
    \/ \E typed \in SessionInputs : handleSubmitSession(typed)
    \/ \E r \in BagToSet(saves) : setDocResolvedSession(r)
    \/ \E r \in BagToSet(saves) : setDocRejectedSession(r)
    \/ closeFeeDialogSession
    \/ \E s \in Students, feeType \in Categories, amount \in AmountInputs :
          handleAddPaymentSession(s, feeType, amount)
SpecSession == Init /\ [][NextSession]_vars

\* ================================================================ claims
\* Sum of the amounts of the rows stored under feeId with the given feeType.
RECURSIVE SumAmounts(_, _)
SumAmounts(rows, S) ==
    IF S = {} THEN 0
    ELSE LET r == CHOOSE x \in S : TRUE
         IN  r.amount * CopiesIn(r, rows) + SumAmounts(rows, S \ {r})
PaidInRows(feeId, feeType) ==
    SumAmounts(transactions[feeId],
               {r \in BagToSet(transactions[feeId]) : r.feeType = feeType})
RowsOf(feeId) == BagCardinality(transactions[feeId])

\* The step ends client k's payment transaction.
PaymentEnds(k) == request[k].kind = "tx" /\ request'[k].kind = "none"
\* The step commits client k's payment: a row is stored under its fee.
PaymentCommits(k) ==
    /\ PaymentEnds(k)
    /\ transactions'[request[k].feeId] # transactions[request[k].feeId]
\* The step applies client k's Edit Fees save to the store.
SaveApplies(k) ==
    /\ request[k].kind = "setDoc"
    /\ request'[k].kind = "none"
    /\ feeDocs' # feeDocs

\* C1: for every stored profile and category, the amounts of the transaction
\* rows of that feeType add up to the stored category.paid.
C1_RowsAddUpToPaid ==
    \A s \in DOMAIN feeDocs : \A c \in Categories :
        PaidInRows(s, c) = feeDocs[s].items[c].paid

\* C2: in every stored profile totalBalance = totalAmount - totalPaid and
\* every category has balance = total - paid.
C2_BalancesReconciled ==
    \A s \in DOMAIN feeDocs :
        /\ feeDocs[s].totalBalance = feeDocs[s].totalAmount - feeDocs[s].totalPaid
        /\ \A c \in Categories :
              feeDocs[s].items[c].balance
                = feeDocs[s].items[c].total - feeDocs[s].items[c].paid
\* A profile that was edited and paid into, with part of a category still due.
C2_Witness ==
    \E s \in DOMAIN feeDocs :
        /\ RowsOf(s) >= 1
        /\ feeDocs[s].updatedAt >= 3
        /\ \E c \in Categories :
              feeDocs[s].items[c].paid > 0 /\ feeDocs[s].items[c].balance # 0

\* C3: two clients that loaded the same new profile (paid = 0 everywhere) and
\* record payments concurrently lose none of them: the stored paid of every
\* category is the sum of what the clients recorded (each client's cache
\* holds what it recorded itself), totalPaid likewise, the rows add up to
\* paid, and there is one row per committed payment.
RECURSIVE SumOverClients(_, _)
SumOverClients(f, S) ==
    IF S = {} THEN 0
    ELSE LET k == CHOOSE x \in S : TRUE IN f[k] + SumOverClients(f, S \ {k})
C3_NoLostPayment ==
    \A s \in DOMAIN feeDocs :
        /\ \A c \in Categories :
              /\ feeDocs[s].items[c].paid
                   = SumOverClients([k \in Clients |-> fees[k][s].items[c].paid], Clients)
              /\ feeDocs[s].items[c].paid = PaidInRows(s, c)
        /\ feeDocs[s].totalPaid
             = SumOverClients([k \in Clients |-> fees[k][s].totalPaid], Clients)
        /\ RowsOf(s) = feeDocs[s].updatedAt - 1
\* Both clients have committed a payment to the same category.
C3_Witness ==
    \E s \in DOMAIN feeDocs : \E c \in Categories :
        /\ \A k \in Clients : fees[k][s].items[c].paid > 0
        /\ RowsOf(s) = 2
        /\ \A k \in Clients : request[k].kind = "none"

\* C4: Add Payment is all-or-nothing: the step that ends a payment either
\* leaves the stored profile and the rows as they were, or stores one row and
\* the profile update together; no other step stores a row.
C4_AllOrNothing ==
    [][/\ \A k \in Clients :
             PaymentEnds(k) =>
                LET r == request[k]
                    row == newTransactionData(r.feeId, r.feeType, r.amount)
                IN  \/ feeDocs' = feeDocs /\ transactions' = transactions
                    \/ /\ transactions' = [transactions EXCEPT ![r.feeId] = @ (+) SetToBag({row})]
                       /\ r.feeId \in DOMAIN feeDocs
                       /\ feeDocs'[r.feeId].items[r.feeType].paid
                            = feeDocs[r.feeId].items[r.feeType].paid + r.amount
                       /\ feeDocs'[r.feeId].totalPaid = feeDocs[r.feeId].totalPaid + r.amount
       /\ transactions' # transactions => \E k \in Clients : PaymentEnds(k)
      ]_vars
\* A payment is stored while another client's transaction has read the
\* profile and can no longer commit what it read.
C4_Witness ==
    \E s \in DOMAIN feeDocs :
        /\ RowsOf(s) >= 1
        /\ \E k \in Clients :
              /\ request[k].kind = "tx" /\ request[k].phase = "read"
              /\ request[k].feeId = s /\ ~CanCommit(request[k])

\* C5: a payment is committed only if its amount does not exceed the
\* category's committed balance, which is then > 0.
C5_NoOverpayment ==
    [][\A k \in Clients :
          PaymentCommits(k) =>
             /\ feeDocs[request[k].feeId].items[request[k].feeType].balance > 0
             /\ request[k].amount
                  <= feeDocs[request[k].feeId].items[request[k].feeType].balance
      ]_vars

\* C6: a committed payment of X to a category with committed paid = P and
\* total = T stores paid = P + X and balance = T - P - X, adds X to totalPaid,
\* takes X off totalBalance and stores exactly one row {feeId, feeType, X}.
C6_PaymentArithmetic ==
    [][\A k \in Clients :
          PaymentCommits(k) =>
             LET r == request[k]
                 old == feeDocs[r.feeId]
                 new == feeDocs'[r.feeId]
             IN  /\ new.items[r.feeType].paid = old.items[r.feeType].paid + r.amount
                 /\ new.items[r.feeType].balance
                      = old.items[r.feeType].total - old.items[r.feeType].paid - r.amount
                 /\ new.totalPaid = old.totalPaid + r.amount
                 /\ new.totalBalance = old.totalBalance - r.amount
                 /\ transactions'[r.feeId]
                      = transactions[r.feeId]
                          (+) SetToBag({[feeId |-> r.feeId, feeType |-> r.feeType,
                                         amount |-> r.amount]})
                 /\ BagCardinality(transactions'[r.feeId]) = RowsOf(r.feeId) + 1
      ]_vars
\* tuition {2, 1, 1} was paid off by a payment of 1: {2, 2, 0}, two rows of 1.
C6_Witness ==
    \E s \in DOMAIN feeDocs :
        /\ feeDocs[s].items["tuition"] = [total |-> 2, paid |-> 2, balance |-> 0]
        /\ CopiesIn([feeId |-> s, feeType |-> "tuition", amount |-> 1], transactions[s]) = 2

\* C7: an Edit Fees save leaves every category's stored paid as it was, and
\* leaves the stored total of every category whose field was not changed in
\* the form as it was.
C7_SaveKeepsPaid ==
    [][\A k \in Clients :
          (SaveApplies(k) /\ request[k].feeId \in DOMAIN feeDocs) =>
             LET s == request[k].feeId
                 opened == getStudentFeeProfile(fees[k], s)
             IN  \A c \in Categories :
                    /\ feeDocs'[s].items[c].paid = feeDocs[s].items[c].paid
                    /\ formData[k].fee.items[c].total = opened.items[c].total
                         => feeDocs'[s].items[c].total = feeDocs[s].items[c].total
      ]_vars

\* C8: in every stored profile totalAmount is the sum of the five categories'
\* total and totalPaid the sum of the five categories' paid.
C8_AggregatesAreSums ==
    \A s \in DOMAIN feeDocs :
        /\ feeDocs[s].totalAmount
             = SumCategories([c \in Categories |-> feeDocs[s].items[c].total])
        /\ feeDocs[s].totalPaid
             = SumCategories([c \in Categories |-> feeDocs[s].items[c].paid])
\* Two categories carry a total and both have been paid into.
C8_Witness ==
    \E s \in DOMAIN feeDocs :
        /\ feeDocs[s].items["tuition"].paid > 0
        /\ feeDocs[s].items["exam"].paid > 0

\* C9: a payment transaction that finds no fee document ends without
\* creating the document, without a row and without touching the client's
\* cached fee list.
C9_MissingProfileFails ==
    [][\A k \in Clients :
          (/\ request[k].kind = "tx"
           /\ request[k].feeId \notin DOMAIN feeDocs
           /\ request'[k] # request[k]) =>
             /\ request'[k] = NoRequest
             /\ feeDocs' = feeDocs
             /\ transactions' = transactions
             /\ fees' = fees
      ]_vars
\* handleAddPayment was called for a student without a fee document and its
\* transaction is about to read.
C9_Witness ==
    \E k \in Clients :
        /\ request[k].kind = "tx"
        /\ request[k].phase = "begin"
        /\ request[k].feeId \notin DOMAIN feeDocs

\* C10: in every stored profile every category's total, paid and balance
\* are >= 0.
C10_NonNegative ==
    \A s \in DOMAIN feeDocs : \A c \in Categories :
        /\ feeDocs[s].items[c].total >= 0
        /\ feeDocs[s].items[c].paid >= 0
        /\ feeDocs[s].items[c].balance >= 0

\* C11: a client's fees state changes while one of its requests is pending
\* only in the step in which the store applies that request; issuing a save
\* or a payment, a rejection by the store and a retry leave it as it was.
C11_CacheChangesOnSuccessOnly ==
    [][\A k \in Clients :
          (/\ request[k].kind # "none" \/ request'[k].kind # "none"
           /\ fees'[k] # fees[k]) =>
             /\ request[k].kind # "none"
             /\ request'[k].kind = "none"
             /\ feeDocs' # feeDocs
      ]_vars
\* An Edit Fees save of a paid-into profile was rejected: the dialog is still
\* open on the typed form and the cache shows the profile as loaded.
C11_Witness ==
    \E k \in Clients :
        /\ dialog[k] = "fee"
        /\ request[k].kind = "none"
        /\ formData[k].studentId \in DOMAIN fees[k]
        /\ fees[k][formData[k].studentId].totalPaid > 0
        /\ \E c \in Categories :
              formData[k].fee.items[c].total
                # fees[k][formData[k].studentId].items[c].total

\* C12: an Edit Fees save that reaches the store when the student has no fee
\* document creates the profile with, for every category, paid = 0 and
\* balance = total = the total in the submitted form (0 where nothing was
\* typed), totalAmount = the sum of those totals, totalPaid = 0 and
\* totalBalance = totalAmount.
C12_NewProfile ==
    [][\A k \in Clients :
          (SaveApplies(k) /\ request[k].feeId \notin DOMAIN feeDocs) =>
             LET s == request[k].feeId
                 entered == [c \in Categories |-> formData[k].fee.items[c].total]
             IN  /\ s \in DOMAIN feeDocs'
                 /\ \A c \in Categories :
                       feeDocs'[s].items[c]
                         = [total |-> entered[c], paid |-> 0, balance |-> entered[c]]
                 /\ \A c \in Categories \ EditedCategories : entered[c] = 0
                 /\ feeDocs'[s].totalAmount = SumCategories(entered)
                 /\ feeDocs'[s].totalPaid = 0
                 /\ feeDocs'[s].totalBalance = feeDocs'[s].totalAmount
      ]_vars
\* The profile was created by a form in which only exam was typed.
C12_Witness ==
    \E s \in DOMAIN feeDocs :
        /\ feeDocs[s].updatedAt = 1
        /\ feeDocs[s].items["exam"] = [total |-> 1, paid |-> 0, balance |-> 1]
        /\ \A c \in Categories \ {"exam"} : feeDocs[s].items[c] = defaultFeeItem
        /\ feeDocs[s].totalAmount = 1

\* C13: the dashboard summary of a client's listed profiles reports
\* totalAmount, totalPaid and totalBalance equal to the sums of the profiles'
\* totalAmount, totalPaid and totalBalance, paidCount = the number of
\* profiles with totalBalance <= 0 and totalAmount > 0, partialCount = the
\* number with totalBalance > 0 and totalPaid > 0, unpaidCount = the number
\* with totalBalance > 0 and totalPaid = 0.
RECURSIVE SumOfField(_, _)
SumOfField(f, S) ==
    IF S = {} THEN 0
    ELSE LET s == CHOOSE x \in S : TRUE IN f[s] + SumOfField(f, S \ {s})
C13_SummaryIsSumOfProfiles ==
    \A k \in Clients :
        LET shown == studentFeeProfiles(fees[k], ListedStudents)
            summary == feesSummary(shown)
        IN  /\ summary.totalAmount
                 = SumOfField([s \in ListedStudents |-> shown[s].totalAmount], ListedStudents)
            /\ summary.totalPaid
                 = SumOfField([s \in ListedStudents |-> shown[s].totalPaid], ListedStudents)
            /\ summary.totalBalance
                 = SumOfField([s \in ListedStudents |-> shown[s].totalBalance], ListedStudents)
            /\ summary.paidCount
                 = Cardinality({s \in ListedStudents :
                      shown[s].totalBalance <= 0 /\ shown[s].totalAmount > 0})
            /\ summary.partialCount
                 = Cardinality({s \in ListedStudents :
                      shown[s].totalBalance > 0 /\ shown[s].totalPaid > 0})
            /\ summary.unpaidCount
                 = Cardinality({s \in ListedStudents :
                      shown[s].totalBalance > 0 /\ shown[s].totalPaid = 0})
\* A dashboard with one fully paid, one partly paid and one unpaid profile.
C13_Witness ==
    \E k \in Clients :
        LET summary == feesSummary(studentFeeProfiles(fees[k], ListedStudents))
        IN  /\ summary.paidCount = 1
            /\ summary.partialCount = 1
            /\ summary.unpaidCount = 1
            /\ summary.totalBalance > 0
            /\ summary.totalPaid > 0

\* C14: every stored transaction row has amount > 0, and the feeType of a
\* row that carries one is one of the five categories.
C14_RowsArePositive ==
    \A f \in DOMAIN transactions : \A r \in BagToSet(transactions[f]) :
        /\ r.amount > 0
        /\ "feeType" \in DOMAIN r => r.feeType \in Categories

\* C15: in the per-category fee manager a stored fee profile stays stored,
\* a stored transaction row stays stored with the fields it has, and the
\* number of rows of a profile never decreases.
C15_AppendOnly ==
    [][/\ DOMAIN feeDocs \subseteq DOMAIN feeDocs'
       /\ \A f \in DOMAIN transactions :
             /\ f \in DOMAIN transactions'
             /\ \A r \in BagToSet(transactions[f]) :
                   CopiesIn(r, transactions'[f]) >= CopiesIn(r, transactions[f])
             /\ BagCardinality(transactions'[f]) >= BagCardinality(transactions[f])
      ]_vars
\* A profile with two different rows in its history.
C15_Witness ==
    \E s \in DOMAIN feeDocs : Cardinality(BagToSet(transactions[s])) >= 2

\* C16: a committed Add Payment to category c of a profile leaves c.total,
\* totalAmount and the other four categories of that profile as they were,
\* and every other student's profile and transaction rows as they were.
C16_PaymentFrame ==
    [][\A k \in Clients :
          PaymentCommits(k) =>
             LET r == request[k]
             IN  /\ feeDocs'[r.feeId].items[r.feeType].total
                      = feeDocs[r.feeId].items[r.feeType].total
                 /\ feeDocs'[r.feeId].totalAmount = feeDocs[r.feeId].totalAmount
                 /\ \A c \in Categories \ {r.feeType} :
                       feeDocs'[r.feeId].items[c] = feeDocs[r.feeId].items[c]
                 /\ DOMAIN feeDocs' = DOMAIN feeDocs
                 /\ \A s \in DOMAIN feeDocs \ {r.feeId} : feeDocs'[s] = feeDocs[s]
                 /\ \A s \in DOMAIN transactions \ {r.feeId} :
                       transactions'[s] = transactions[s]
      ]_vars
\* A payment went to one category of a profile that has a second category
\* with a total, while another student has a profile with rows of its own.
C16_Witness ==
    \E s \in DOMAIN feeDocs : \E o \in DOMAIN feeDocs \ {s} :
        /\ feeDocs[s].items["tuition"].paid > 0
        /\ feeDocs[s].items["exam"] = [total |-> 1, paid |-> 0, balance |-> 1]
        /\ RowsOf(o) >= 1

\* C17: the reconciliation of Edit Fees is a deterministic, idempotent
\* function of the form: recomputing it from the submitted form gives the data
\* that was sent, applying it to its own output gives that output again, and
\* the ledger values a save stores are exactly that data, so saving the same
\* form again stores the same values.
C17_ReconcileIdempotent ==
    [][\A k \in Clients :
          SaveApplies(k) =>
             LET d == request[k].data
             IN  /\ dataToSave(formData[k].fee) = d
                 /\ dataToSave(d) = d
                 /\ Cached(feeDocs'[request[k].feeId]) = d
      ]_vars
\* The form of a paid-into profile is saved again unchanged: the data on its
\* way to the store are the stored ledger values.
C17_Witness ==
    \E k \in Clients :
        /\ request[k].kind = "setDoc"
        /\ request[k].feeId \in DOMAIN feeDocs
        /\ Cached(feeDocs[request[k].feeId]) = request[k].data
        /\ request[k].data.totalPaid > 0

\* A step in which client k's batch ends and something was written.
BatchCommits(k) ==
    /\ batch[k].kind = "batch"
    /\ batch'[k].kind = "none"
    /\ <<recordDocs, submissionDocs, submissions[k]>>' # <<recordDocs, submissionDocs, submissions[k]>>

\* C18: a committed EntryForm submission creates exactly one attendance
\* record for each student marked Absent and none for a student marked
\* Present; the stored submission's absentCount is the number of records
\* created, and presentCount + absentCount is the size of the submitted list.
C18_OneRecordPerAbsent ==
    [][\A k \in Clients :
         BatchCommits(k) =>
            LET created == DOMAIN recordDocs' \ DOMAIN recordDocs
                stored == submissionDocs'[batch[k].date]
            IN  /\ \A u \in batch[k].absent :
                      Cardinality({i \in created : recordDocs'[i].studentId = u}) = 1
                /\ \A u \in studentsInClass \ batch[k].absent :
                      {i \in created : recordDocs'[i].studentId = u} = {}
                /\ \A i \in created : recordDocs'[i].date = batch[k].date
                /\ stored.absentCount = Cardinality(created)
                /\ stored.presentCount + stored.absentCount = Cardinality(studentsInClass)]_vars
\* A submission with one student absent and one present is stored.
C18_Witness ==
    \E d \in DOMAIN submissionDocs :
        /\ submissionDocs[d].absentCount = 1
        /\ submissionDocs[d].presentCount = 1
        /\ Cardinality({i \in DOMAIN recordDocs : recordDocs[i].date = d}) = 1

\* The session of client k shows attendance records: the dashboard of
\* anybody but a teacher (part_004:224-247), the analytics page and the
\* student report.
ShowsRecords(k) ==
    \/ page[k] = "dashboard" /\ ~RendersEntryForm(k)
    \/ page[k] = "report"

\* C19: a record is passed to the dashboard, analytics and student-report
\* views only if its date is not a Sunday and the workingDays calendar the
\* page fetched holds an entry for that date with isWorkingDay = true.
C19_ViewsShowWorkingDays ==
    \A k \in Clients :
        ShowsRecords(k) =>
            \A i \in DOMAIN records[k] :
                LET date == records[k][i].date
                IN  /\ ~isSunday(date)
                    /\ date \in DOMAIN workingDays[k]
                    /\ workingDays[k][date]
\* A view was fetched while the store held a record dated on a day without
\* a calendar entry (or on a Sunday) and another whose day was switched back
\* to holiday or is still working.
C19_Witness ==
    \E k \in Clients :
        /\ ShowsRecords(k)
        /\ workingDays[k] = workingDayDocs
        /\ \E i \in DOMAIN recordDocs \ DOMAIN records[k] :
               recordDocs[i].date \notin DOMAIN workingDayDocs
C19_WitnessSwitchedBack ==
    \E k \in Clients :
        /\ ShowsRecords(k)
        /\ workingDays[k] = workingDayDocs
        /\ \E i \in DOMAIN recordDocs \ DOMAIN records[k] :
               /\ recordDocs[i].date \in DOMAIN workingDayDocs
               /\ ~workingDayDocs[recordDocs[i].date]
C19_WitnessSunday ==
    \E k \in Clients :
        /\ ShowsRecords(k)
        /\ \E i \in DOMAIN recordDocs \ DOMAIN records[k] : isSunday(recordDocs[i].date)
C19_WitnessShown ==
    \E k \in Clients : ShowsRecords(k) /\ records[k] # NoEntries

\* A step in which client k's EntryForm hands a batch of records and a
\* submission document to the store.
SubmissionIssued(k) == batch[k].kind = "none" /\ batch'[k].kind = "batch"

\* C20: an EntryForm submission writes attendance records and a submission
\* document only if the workingDays calendar marks today's date as a
\* working day; on a date without an entry, or marked holiday, onSubmit
\* writes nothing.
C20_SubmitsOnWorkingDaysOnly ==
    [][\A k \in Clients :
         SubmissionIssued(k) =>
            /\ today \in DOMAIN workingDayDocs
            /\ workingDayDocs[today]]_vars

\* The profile that results when an Edit Fees save with the form's totals and
\* the payments that the stored profile holds are executed one after the
\* other, in either order: the form's totals, the stored paid, and balances
\* and aggregates reconciled from them.
SerialSave(stored, form) ==
    [items |-> [c \in Categories |->
                  [total |-> form.items[c].total,
                   paid |-> stored.items[c].paid,
                   balance |-> form.items[c].total - stored.items[c].paid]],
     totalAmount |-> TotalAmountOf(form.items),
     totalPaid |-> TotalPaidOf(stored.items),
     totalBalance |-> TotalAmountOf(form.items) - TotalPaidOf(stored.items),
     updatedAt |-> 0]

\* C21: operations on one fee profile are serializable: when an Edit Fees
\* save whose dialog was opened on an earlier snapshot reaches the store
\* after Add Payment commits of other clients (and no other save), the
\* stored profile is the one that executing the save and those payments one
\* at a time gives.
C21_Serializable ==
    [][\A k \in Clients :
          (/\ SaveApplies(k)
           /\ request[k].feeId \in DOMAIN feeDocs
           /\ request[k].feeId \in DOMAIN fees[k]
           /\ \A c \in Categories :
                 feeDocs[request[k].feeId].items[c].total
                   = fees[k][request[k].feeId].items[c].total) =>
             Cached(feeDocs'[request[k].feeId])
               = SerialSave(feeDocs[request[k].feeId], formData[k].fee)
      ]_vars

RecordsOn(d) == {i \in DOMAIN recordDocs : recordDocs[i].date = d}

\* C23: for each date an attendance submission of the class takes effect at
\* most once: the stored records of that date are those of the one stored
\* submission, no student having two of them and their number being the
\* submission's absentCount, and a date with records has a submission.
C23_OneSubmissionPerDay ==
    /\ \A d \in DOMAIN submissionDocs :
          /\ \A i, j \in RecordsOn(d) :
                recordDocs[i].studentId = recordDocs[j].studentId => i = j
          /\ Cardinality(RecordsOn(d)) = submissionDocs[d].absentCount
    /\ \A i \in DOMAIN recordDocs : recordDocs[i].date \in DOMAIN submissionDocs

\* C24: for every date with a submission of the class, the submission's
\* absentCount is the number of stored absentee records of that date and is
\* >= 0, and presentCount + absentCount is what it was at submission (the
\* size of the class), whatever Mark as Arrived operations have run.
C24_CountsMatchRecords ==
    \A d \in DOMAIN submissionDocs :
        /\ submissionDocs[d].absentCount = Cardinality(RecordsOn(d))
        /\ submissionDocs[d].absentCount >= 0
        /\ submissionDocs[d].presentCount + submissionDocs[d].absentCount
             = Cardinality(studentsInClass)

\* C25: in the single-amount fee manager a deleted fee record takes its
\* payments with it: no transaction row is stored under a feeId whose fee
\* document has been deleted.
C25_DeleteRemovesPayments ==
    \A f \in DOMAIN transactions :
        f \notin DOMAIN feeDocs => transactions[f] = EmptyBag


\* C26: in one session with no other writer, once every save and payment has
\* completed, the cached list holds exactly one entry for each student that
\* has a stored fee document and none for the others, and every entry shows
\* the categories { total, paid, balance } and the aggregates of the stored
\* document.
EntriesOf(s) == {i \in 1..Len(feeList) : feeList[i].id = s}
C26_CacheMatchesStore ==
    saves = EmptyBag =>
        /\ \A s \in Students :
              Cardinality(EntriesOf(s)) = IF s \in DOMAIN feeDocs THEN 1 ELSE 0
        /\ \A i \in 1..Len(feeList) :
              /\ feeList[i].id \in DOMAIN feeDocs
              /\ EntryProfile(heap, feeList[i]) = Cached(feeDocs[feeList[i].id])


\* C27: only an admin changes the working-day calendar: whenever
\* handleDayClick writes a workingDays entry, the staff member of the
\* session that runs it has the role admin, whatever the roles of the
\* sessions and whatever they did before.
C27_OnlyAdminWritesCalendar ==
    [][\A k \in Clients, day \in Days : handleDayClick(k, day) => staff[k] = "admin"]_vars


\* C28: on the working-days page a date without an entry is a holiday; a
\* click on a date that is not a Sunday inverts the status the page shows
\* for it (a holiday becomes a working day, a working day a holiday), stores
\* the new status and shows it, and leaves every other date alone, so that
\* two clicks on a date bring back the status from which they started,
\* whatever the calendar holds; no Sunday ever gets an entry, in the store
\* or on a page.
SameElsewhere(old, new, day) ==
    /\ DOMAIN new = DOMAIN old \cup {day}
    /\ \A d \in DOMAIN old \ {day} : new[d] = old[d]
\* The calendar of a page after a click on day.
Clicked(calendar, day) == Put(calendar, day, newIsWorking(calendar, day))
TwoClicksRestore ==
    \A k \in Clients, day \in Days :
        page[k] = "working-days" /\ ~isSunday(day) =>
            IsWorking(Clicked(Clicked(calendarDays[k], day), day), day)
              = IsWorking(calendarDays[k], day)
CountsOf(summary) == summary.paidCount + summary.partialCount + summary.unpaidCount
\* How often the summary counts the profile shown for student s.
TimesCounted(cache, s) == CountsOf(feesSummary(studentFeeProfiles(cache, {s})))
C29_CountedOnce ==
    \A k \in Clients :
        LET shown == studentFeeProfiles(fees[k], ListedStudents)
            summary == feesSummary(shown)
        IN  /\ \A s \in ListedStudents :
                  /\ shown[s].totalAmount > 0 => TimesCounted(fees[k], s) = 1
                  /\ shown[s].totalAmount = 0 /\ shown[s].totalBalance = 0
                        => TimesCounted(fees[k], s) = 0
            /\ CountsOf(summary)
                 = SumOfField([s \in ListedStudents |-> TimesCounted(fees[k], s)], ListedStudents)
            /\ CountsOf(summary) <= Cardinality(ListedStudents)
\* A dashboard that lists a student without a fee document, a student whose
\* document has no amounts, and a partly paid profile.
C29_Witness ==
    \E k \in Clients :
        LET shown == studentFeeProfiles(fees[k], ListedStudents)
        IN  /\ \E s \in ListedStudents : s \notin DOMAIN fees[k]
            /\ \E s \in DOMAIN fees[k] : shown[s].totalAmount = 0
            /\ \E s \in DOMAIN fees[k] :
                  shown[s].totalAmount > 0 /\ shown[s].totalPaid > 0 /\ shown[s].totalBalance > 0
            /\ CountsOf(feesSummary(shown)) = 1

====
